---- MODULE Spec2Model ----
(***************************************************************************)
(* Guardrail evaluation of the Frontier-Trading AI copilot.                *)
(*                                                                         *)
(* Two evaluators live in the repository:                                  *)
(*   - AlertAnalyzer._check_guardrails (src/ai/copilot.py), reached        *)
(*     through analyze_stock_for_alerts -> _parse_ai_suggestion;           *)
(*   - SafetyGuardrails.validate_suggestion (src/ai/models/copilot.py),    *)
(*     a public method also used by generate_trading_suggestions.          *)
(*                                                                         *)
(* Units.  Money is in whole dollars.  Fractions are in hundredths: a      *)
(* percentage 0.05 is 5, a volatility 0.5 is 50, a confidence 0.3 is 30.   *)
(* A comparison  a > b * 0.05  of the code is  a * 100 > b * 5  here.      *)
(* A Python dict is a function whose DOMAIN is the set of keys present.    *)
(***************************************************************************)
EXTENDS Integers, Sequences, FiniteSets, TLC

VARIABLES
    now,              \* the ambient clock read by datetime.now(), in hours
    guardrails,       \* the SafetyGuardrails instance of the CopilotService
    insight_history,  \* CopilotService.insight_history
    result,           \* the last call made and what it returned or raised
    session,          \* AlertManager.session of the FrontierCopilot
    closed,           \* the ClientSession objects that have been closed
    tasks,            \* the analyze_stock coroutines and where each stands
    requests          \* the requests posted to the alert service

\* The state of the FrontierCopilot's alert manager and of its callers.
copilot_vars == <<session, closed, tasks, requests>>

vars == <<now, guardrails, insight_history, result, copilot_vars>>

(***************************************************************************)
(* Bounds and input sets                                                   *)
(***************************************************************************)
\* The clock starts at StartHour, advances TickHours at a time and is
\* followed up to MaxNow: 09:00, 16:00 and 23:00 with the values below.
StartHour == 9
TickHours == 7
MaxNow == 23
\* The longest list of positions of a portfolio.
MaxPositions == 2
\* The longest insight history the history operations are examined on.
MaxHistory == 2

\* The symbols passed to add_forbidden_symbol / remove_forbidden_symbol and
\* the percentages passed to add_safety_rule.
Symbols == {"aapl", "AAPL", "tsla"}
Percentages == {10}
LossPercentages == {5}

\* The analyze_stock calls in progress on the one FrontierCopilot.
Tasks == {"first", "second"}

\* dict.get(key, default)
Get(d, k, default) == IF k \in DOMAIN d THEN d[k] ELSE default

\* the dict holding the keys K of the record full
Restrict(full, K) == [k \in K |-> full[k]]

\* every dict that holds a subset of the keys of a record of recs
SubDicts(recs) == UNION {{Restrict(r, K) : K \in SUBSET (DOMAIN r)} : r \in recs}

Abs(x) == IF x < 0 THEN -x ELSE x

\* floor of a / b for any b # 0
Div(a, b) == IF b > 0 THEN a \div b ELSE (-a) \div (-b)

Min(a, b) == IF a < b THEN a ELSE b

\* str.upper() on the symbols of the model
Upper(s) == CASE s = "aapl" -> "AAPL"
              [] s = "AAPL" -> "AAPL"
              [] s = "tsla" -> "TSLA"
              [] OTHER -> s

\* datetime.hour of a clock value
Hour(clock) == clock % 24

(***************************************************************************)
(* JSON values of the LLM reply that the code passes to float(): a number  *)
(* converts, any other text ("Unknown", "5%") raises ValueError.           *)
(***************************************************************************)
Num(n) == [num |-> TRUE, v |-> n]
Text == [num |-> FALSE, v |-> 0]

(***************************************************************************)
(* src/ai/copilot.py: AlertAnalyzer                                        *)
(***************************************************************************)

\* The account dicts a caller passes; any key may be absent.
AccountData ==
    [buying_power : {5000, 10000}, equity : {100000},
     daily_pnl : {-500, -1500}, daily_loss_limit : {-1000}]
    \cup
    {[buying_power |-> 10000, equity |-> 100000, daily_pnl |-> 3000,
      daily_loss_limit |-> -1000],
     [buying_power |-> 10000, equity |-> 100000, daily_pnl |-> -1500,
      daily_loss_limit |-> -2000],
     [buying_power |-> 10000, equity |-> 100000, daily_pnl |-> -1500],
     \* the default of FrontierCopilot.analyze_stock
     [cash |-> 10000, equity |-> 10000, buying_power |-> 10000],
     [buying_power |-> 0, equity |-> 100000],
     [equity |-> 100000],
     [cash |-> 10000]}

MarketData == SubDicts([price : {100}])

\* The replies of the LLM after json.loads: dicts with the keys the prompt
\* asks for, any of which may be absent.
FullAnalyses ==
    {[action_type |-> "buy", confidence |-> 80, risk_level |-> "medium",
      suggested_quantity |-> q, suggested_price |-> 100,
      potential_downside |-> Num(10), potential_upside |-> Num(20),
      risk_reward_ratio |-> 200,
      stop_loss_suggestion |-> 90, take_profit_suggestion |-> 120]
        : q \in {-10, 40, 50, 60}}
    \cup
    {[action_type |-> "alert", confidence |-> 20, risk_level |-> "high",
      suggested_quantity |-> 0, suggested_price |-> 100,
      potential_downside |-> Num(10), potential_upside |-> Num(20),
      risk_reward_ratio |-> 50,
      stop_loss_suggestion |-> 90, take_profit_suggestion |-> t]
        : t \in {0, 120}}

Analyses ==
    FullAnalyses
    \cup {Restrict(a, {"action_type", "suggested_quantity"})
            : a \in {b \in FullAnalyses : b.suggested_quantity = 60}}
    \cup {[a EXCEPT !.potential_downside = Text, !.potential_upside = Text]
            : a \in {b \in FullAnalyses : b.suggested_quantity = 40}}

\* _get_fallback_analysis: the analysis used when the LLM call or json.loads
\* raises.
_get_fallback_analysis ==
    [action_type |-> "watch", confidence |-> 30,
     reasoning |-> "Insufficient data for confident recommendation",
     risk_level |-> "medium",
     suggested_quantity |-> 0, suggested_price |-> 0, estimated_cost |-> 0,
     potential_upside |-> Text, potential_downside |-> Text,
     risk_reward_ratio |-> 100, time_horizon |-> "short",
     stop_loss_suggestion |-> 0, take_profit_suggestion |-> 0]

\* What the LLM call and json.loads give: a parsed dict, or an exception
\* (the call failed, or the content was not valid JSON).
LLMReplies ==
    {[ok |-> TRUE, content |-> a] : a \in Analyses}
    \cup {[ok |-> FALSE, content |-> Restrict(_get_fallback_analysis, {})]}

\* _get_ai_analysis: the parsed reply, or the fallback when the call or the
\* parse raised.
_get_ai_analysis(reply) ==
    IF reply.ok THEN reply.content ELSE _get_fallback_analysis

\* _check_guardrails, "Check buying power": what the check appends to the
\* violations.
BuyingPowerWrongField(account_data, estimated_cost) ==
    IF estimated_cost > Get(account_data, "equity", 0)
    THEN <<"Insufficient buying power">> ELSE <<>>

BuyingPowerViolation(account_data, estimated_cost) ==
    LET buying_power == Get(account_data, "buying_power", 0)
    IN  IF estimated_cost > buying_power
        THEN <<"Insufficient buying power">> ELSE <<>>

\* _check_guardrails, "Check position limits": position_limit is
\* equity * 0.05.
PositionLimitInclusive(account_data, estimated_cost) ==
    IF estimated_cost * 100 >= Get(account_data, "equity", 1) * 5
    THEN <<"Position size exceeds 5% portfolio limit">> ELSE <<>>

PositionLimitViolation(account_data, estimated_cost) ==
    LET equity == Get(account_data, "equity", 1)
    IN  IF estimated_cost * 100 > equity * 5
        THEN <<"Position size exceeds 5% portfolio limit">> ELSE <<>>

\* _check_guardrails, "Check daily loss limits"
DailyLossViolation(account_data) ==
    LET daily_pnl == Get(account_data, "daily_pnl", 0)
        daily_limit == Get(account_data, "daily_loss_limit", -1000)
    IN  IF daily_pnl < daily_limit
        THEN <<"Daily loss limit reached">> ELSE <<>>

\* _check_guardrails, "Check market hours (simplified)"
MarketHoursOk(clock) == 9 <= Hour(clock) /\ Hour(clock) < 16

GuardrailCheck(violations, daily_loss_ok, market_hours_ok) ==
    [max_position_ok |-> Len(violations) = 0,
     daily_loss_ok |-> daily_loss_ok,
     market_hours_ok |-> market_hours_ok,
     pattern_day_trader_ok |-> TRUE,
     risk_limits_ok |-> Len(violations) = 0,
     violations |-> violations]

\* A _check_guardrails that stops at the first failed check.
CheckGuardrailsFirstOnly(account_data, estimated_cost, symbol, clock) ==
    LET all == BuyingPowerViolation(account_data, estimated_cost)
               \o PositionLimitViolation(account_data, estimated_cost)
               \o DailyLossViolation(account_data)
    IN  GuardrailCheck(IF all = <<>> THEN all ELSE <<Head(all)>>,
                       Get(account_data, "daily_pnl", 0)
                         >= Get(account_data, "daily_loss_limit", -1000),
                       MarketHoursOk(clock))

\* A _check_guardrails that turns a closed market into a violation.
CheckGuardrailsHoursBlocking(account_data, estimated_cost, symbol, clock) ==
    GuardrailCheck(
        BuyingPowerViolation(account_data, estimated_cost)
          \o PositionLimitViolation(account_data, estimated_cost)
          \o DailyLossViolation(account_data)
          \o (IF MarketHoursOk(clock) THEN <<>> ELSE <<"Market is closed">>),
        Get(account_data, "daily_pnl", 0)
          >= Get(account_data, "daily_loss_limit", -1000),
        MarketHoursOk(clock))

\* _check_guardrails.  clock is the value datetime.now() returns inside.
_check_guardrails(account_data, estimated_cost, symbol, clock) ==
    LET violations == BuyingPowerViolation(account_data, estimated_cost)
                      \o PositionLimitViolation(account_data, estimated_cost)
                      \o DailyLossViolation(account_data)
        daily_pnl == Get(account_data, "daily_pnl", 0)
        daily_limit == Get(account_data, "daily_loss_limit", -1000)
    IN  GuardrailCheck(violations, daily_pnl >= daily_limit,
                       MarketHoursOk(clock))

Raised(exc) == [raised |-> TRUE, exc |-> exc]

\* The loss figure without the division by 100.
MaxLossUnscaled(estimated_cost, downside_pct) ==
    estimated_cost * downside_pct

\* RiskImpact.max_loss: estimated_cost * (float(potential_downside) / 100)
MaxLoss(estimated_cost, downside_pct) ==
    Div(estimated_cost * downside_pct, 100)

\* _parse_ai_suggestion.  The suggestion_id (a fresh uuid), the features and
\* the compliance texts are left out: nothing computed here reads them.
_parse_ai_suggestion(analysis, symbol, user_id, market_data, account_data, clock) ==
    LET action_type == Get(analysis, "action_type", "watch")
        confidence == Get(analysis, "confidence", 30)
        suggested_quantity == Get(analysis, "suggested_quantity", 0)
        suggested_price == Get(analysis, "suggested_price",
                               Get(market_data, "price", 0))
        estimated_cost == suggested_quantity * suggested_price
        bp == Get(account_data, "buying_power", 1)
        downside == Get(analysis, "potential_downside", Num(0))
        upside == Get(analysis, "potential_upside", Num(0))
    IN  IF bp = 0 THEN Raised("ZeroDivisionError")
        ELSE IF ~downside.num THEN Raised("ValueError")
        ELSE IF ~upside.num THEN Raised("ValueError")
        ELSE
          [raised |-> FALSE,
           user_id |-> user_id,
           symbol |-> symbol,
           action_type |-> action_type,
           confidence |-> confidence,
           risk_impact |->
             [estimated_drawdown |-> downside.v,
              \* min((estimated_cost / bp) * 100, 100.0), in whole percent
              bp_usage |-> Min(Div(estimated_cost * 100, bp), 100),
              max_loss |-> MaxLoss(estimated_cost, downside.v),
              risk_reward_ratio |-> Get(analysis, "risk_reward_ratio", 100)],
           what_if |->
             [quantity |-> suggested_quantity,
              price |-> suggested_price,
              estimated_cost |-> estimated_cost,
              estimated_fees |-> Div(estimated_cost * 5, 1000),
              potential_pnl |-> Div(estimated_cost * upside.v, 100),
              risk_metrics |->
                [stop_loss |-> Get(analysis, "stop_loss_suggestion", 0),
                 take_profit |-> Get(analysis, "take_profit_suggestion", 0),
                 time_horizon |-> Get(analysis, "time_horizon", "short")]],
           guardrails |->
             _check_guardrails(account_data, estimated_cost, symbol, clock)]

\* analyze_stock_for_alerts
analyze_stock_for_alerts(symbol, user_id, market_data, reply, account_data, clock) ==
    _parse_ai_suggestion(_get_ai_analysis(reply), symbol, user_id,
                         market_data, account_data, clock)

\* The accounts setup_intelligent_alerts is exercised with: one that passes
\* every check, one over its daily loss limit, one with no buying power.
AlertAccounts ==
    {[buying_power |-> 10000, equity |-> 100000, daily_pnl |-> -500,
      daily_loss_limit |-> -1000],
     [buying_power |-> 10000, equity |-> 100000, daily_pnl |-> -1500,
      daily_loss_limit |-> -1000],
     [buying_power |-> 0, equity |-> 100000]}

\* The alert service is external: the request of one kind of alert may
\* raise (connection refused, bad response), or none does.
Outages == {"none", "stop_loss", "take_profit", "news"}

\* AlertManager.create_price_alert: the request posted, and whether it raised
create_price_alert(user_id, symbol, alert_type, trigger_price, outage) ==
    [method |-> "create_price_alert",
     url |-> "/api/alerts/price",
     user_id |-> user_id, symbol |-> symbol, alert_type |-> alert_type,
     trigger_price |-> trigger_price,
     raised |-> outage = alert_type]

\* AlertManager.create_news_alert
create_news_alert(user_id, symbol, keywords, outage) ==
    [method |-> "create_news_alert",
     url |-> "/api/alerts/news",
     user_id |-> user_id, symbol |-> symbol, keywords |-> keywords,
     raised |-> outage = "news"]

\* The calls of a list up to and including the first that raises.
RECURSIVE UntilRaised(_)
UntilRaised(calls) ==
    IF calls = <<>> THEN <<>>
    ELSE IF Head(calls).raised THEN <<Head(calls)>>
    ELSE <<Head(calls)>> \o UntilRaised(Tail(calls))

\* The alert-manager calls _create_alerts_from_suggestion makes when none
\* raises, in order.
PlannedAlerts(suggestion, outage) ==
    LET risk_metrics == suggestion.what_if.risk_metrics
        price_alert(kind, trigger_price) ==
            IF suggestion.action_type = "alert" /\ trigger_price # 0
            THEN <<create_price_alert(suggestion.user_id, suggestion.symbol,
                                      kind, trigger_price, outage)>>
            ELSE <<>>
    IN  price_alert("stop_loss", risk_metrics.stop_loss)
        \o price_alert("take_profit", risk_metrics.take_profit)
        \o <<create_news_alert(
                 suggestion.user_id, suggestion.symbol,
                 <<suggestion.symbol, "earnings", "news", "announcement">>,
                 outage)>>

\* The alert creation that goes on to the next call after one raised.
CreateAlertsDespiteRaise(suggestion, outage) ==
    PlannedAlerts(suggestion, outage)

\* _create_alerts_from_suggestion: the calls made; an exception of one ends
\* the method.
_create_alerts_from_suggestion(suggestion, outage) ==
    UntilRaised(PlannedAlerts(suggestion, outage))

\* setup_intelligent_alerts: the suggestion returned or the exception, and
\* the alert-manager calls made on the way.
setup_intelligent_alerts(user_id, symbol, market_data, reply, account_data, outage, clock) ==
    LET suggestion == analyze_stock_for_alerts(symbol, user_id, market_data,
                                               reply, account_data, clock)
        calls == _create_alerts_from_suggestion(suggestion, outage)
    IN  IF suggestion.raised
          THEN [suggestion |-> suggestion, ret |-> suggestion,
                calls |-> <<>>]
        ELSE IF \E i \in 1..Len(calls) : calls[i].raised
          THEN [suggestion |-> suggestion, ret |-> Raised("ClientError"),
                calls |-> calls]
        ELSE [suggestion |-> suggestion, ret |-> suggestion, calls |-> calls]

(***************************************************************************)
(* src/ai/models/copilot.py: SafetyGuardrails, CopilotAnalyzer,            *)
(* CopilotService                                                          *)
(***************************************************************************)

RiskLevels == {"low", "medium", "high", "extreme"}
ConfidenceLevels == {"low", "medium", "high"}

\* The fields of a CopilotInsight that the guardrails read.
Insights == [risk_level : RiskLevels, confidence : ConfidenceLevels]

\* context['market'] and context['portfolio'] as a caller of
\* validate_suggestion may pass them: dicts with any of the keys absent,
\* the empty dict included.
MarketContexts ==
    {[symbol |-> "aapl", volatility |-> 50],
     [symbol |-> "aapl", volatility |-> 60],
     [symbol |-> "tsla"],
     Restrict([symbol |-> "tsla"], {})}

PortfolioContexts ==
    {[daily_pnl |-> -3000, total_value |-> 100000],
     [daily_pnl |-> 3000, total_value |-> 100000],
     [daily_pnl |-> -2000, total_value |-> 100000],
     [daily_pnl |-> -500, total_value |-> 0],
     Restrict([daily_pnl |-> 0], {})}

Contexts == [market : MarketContexts, portfolio : PortfolioContexts]

\* SafetyGuardrails.__init__
SafetyGuardrails ==
    [max_position_size_pct |-> 5,
     max_daily_loss_pct |-> 2,
     max_leverage |-> 200,
     forbidden_symbols |-> {},
     risk_thresholds |-> [volatility |-> 50, drawdown |-> 10,
                          concentration |-> 30]]

Verdict(is_safe, reason) ==
    [raised |-> FALSE, is_safe |-> is_safe, reason |-> reason]

\* f"Risk level {insight.risk_level.value} exceeds safety threshold"
RiskReason(level) == "Risk level " \o level \o " exceeds safety threshold"

\* validate_suggestion, "Check risk level"
RiskOnlyHigh(insight) == insight.risk_level = "high"

RiskTooHigh(insight) == insight.risk_level \in {"high", "extreme"}

\* validate_suggestion, "Check confidence"
ConfidenceBelowHigh(insight) == insight.confidence \in {"low", "medium"}

ConfidenceTooLow(insight) == insight.confidence = "low"

\* validate_suggestion, "Check market context": a non-empty market dict whose
\* volatility (0 when absent) is above the threshold.
VolatilityInclusive(self, market) ==
    /\ DOMAIN market # {}
    /\ Get(market, "volatility", 0) >= self.risk_thresholds.volatility

VolatilityTooHigh(self, market) ==
    /\ DOMAIN market # {}
    /\ Get(market, "volatility", 0) > self.risk_thresholds.volatility

\* SafetyGuardrails.validate_suggestion: the (is_safe, reason) pair it
\* returns, or the exception of the division by a zero total_value.
validate_suggestion(self, insight, context) ==
    LET portfolio == Get(context, "portfolio", Restrict(context, {}))
        market == Get(context, "market", Restrict(context, {}))
        daily_pnl == Get(portfolio, "daily_pnl", 0)
        total_value == Get(portfolio, "total_value", 1)
    IN  IF RiskTooHigh(insight)
          THEN Verdict(FALSE, RiskReason(insight.risk_level))
        ELSE IF ConfidenceTooLow(insight)
          THEN Verdict(FALSE, "Confidence level too low for actionable suggestion")
        ELSE IF DOMAIN portfolio # {} /\ total_value = 0
          THEN Raised("ZeroDivisionError")
        \* abs(daily_pnl / total_value) > self.max_daily_loss_pct
        ELSE IF /\ DOMAIN portfolio # {}
                /\ Abs(daily_pnl) * 100 > self.max_daily_loss_pct * Abs(total_value)
          THEN Verdict(FALSE, "Daily loss limit exceeded")
        ELSE IF VolatilityTooHigh(self, market)
          THEN Verdict(FALSE, "Market volatility too high")
        ELSE Verdict(TRUE, "Suggestion validated")

\* SafetyGuardrails.add_forbidden_symbol: the new forbidden set
add_forbidden_symbol(self, symbol) ==
    [self EXCEPT !.forbidden_symbols = @ \cup {Upper(symbol)}]

\* A removal that matches the case of the symbol as given.
RemoveExactCase(self, symbol) ==
    [self EXCEPT !.forbidden_symbols = @ \ {symbol}]

\* SafetyGuardrails.remove_forbidden_symbol
remove_forbidden_symbol(self, symbol) ==
    [self EXCEPT !.forbidden_symbols = @ \ {Upper(symbol)}]

\* CopilotService.add_safety_rule
add_safety_rule(self, rule_type, rule_config) ==
    IF rule_type = "forbidden_symbol"
      THEN add_forbidden_symbol(self, rule_config.symbol)
    ELSE IF rule_type = "max_position_size"
      THEN [self EXCEPT !.max_position_size_pct = rule_config.percentage]
    ELSE IF rule_type = "max_daily_loss"
      THEN [self EXCEPT !.max_daily_loss_pct = rule_config.percentage]
    ELSE self

\* CopilotAnalyzer._parse_ai_response: the parser of the repository extracts
\* nothing and returns the empty list for every response.
_parse_ai_response(response, context) == <<>>

\* The guardrail loop with the accepted insights collected newest first.
RECURSIVE ValidatedNewestFirst(_, _, _)
ValidatedNewestFirst(self, insights, context) ==
    IF insights = <<>> THEN [raised |-> FALSE, list |-> <<>>]
    ELSE LET v == validate_suggestion(self, Head(insights), context)
             rest == ValidatedNewestFirst(self, Tail(insights), context)
         IN  IF v.raised \/ rest.raised THEN [raised |-> TRUE, list |-> <<>>]
             ELSE IF v.is_safe
               THEN [raised |-> FALSE, list |-> rest.list \o <<Head(insights)>>]
             ELSE rest

\* The guardrail loop of generate_trading_suggestions over the parsed
\* insights: the accepted ones in order, or "raised" when a validation
\* raises.
RECURSIVE ValidatedInsights(_, _, _)
ValidatedInsights(self, insights, context) ==
    IF insights = <<>> THEN [raised |-> FALSE, list |-> <<>>]
    ELSE LET v == validate_suggestion(self, Head(insights), context)
             rest == ValidatedInsights(self, Tail(insights), context)
         IN  IF v.raised \/ rest.raised THEN [raised |-> TRUE, list |-> <<>>]
             ELSE IF v.is_safe
               THEN [raised |-> FALSE, list |-> <<Head(insights)>> \o rest.list]
             ELSE rest

\* CopilotAnalyzer.generate_trading_suggestions: every exception (of the
\* LLM call, of the parser, of a validation) is caught and gives [].
generate_trading_suggestions(self, market_context, portfolio_context, llm_ok) ==
    LET context == [market |-> market_context, portfolio |-> portfolio_context]
        validated == ValidatedInsights(self, _parse_ai_response("analysis", context),
                                       context)
    IN  IF ~llm_ok \/ validated.raised THEN <<>> ELSE validated.list

\* The full snapshots get_insights builds its MarketContext and
\* PortfolioContext from.
MarketSnapshots == [symbol : {"aapl"}, volatility : {50, 60}]
PortfolioSnapshots ==
    [daily_pnl : {3000}, total_value : {0, 100000}]

\* The pruning of get_insights: the history entries of the last 24 hours.
RecentInsights(history, clock) ==
    SelectSeq(history, LAMBDA insight : insight.timestamp > clock - 24)

\* The hours a caller asks get_insight_history for; 24 is the default.
HistoryHours == {1, 24, 48}

\* The history lookup with entries of exactly the cutoff time included.
InsightHistoryInclusive(history, hours, clock) ==
    SelectSeq(history, LAMBDA insight : insight.timestamp >= clock - hours)

\* CopilotService.get_insight_history(hours)
get_insight_history(history, hours, clock) ==
    SelectSeq(history, LAMBDA insight : insight.timestamp > clock - hours)

\* The position dicts of a portfolio: symbol and market value in dollars.
Positions ==
    {[symbol |-> "AAPL", market_value |-> 25000],
     [symbol |-> "TSLA", market_value |-> 20000],
     [symbol |-> "MSFT", market_value |-> 21000]}

\* The lists of at most MaxPositions positions.
PositionLists ==
    UNION {[1..n -> Positions] : n \in 0..MaxPositions}

\* The portfolio dicts handed to analyze_portfolio_context; total_value,
\* risk_metrics and daily_pnl may be absent.  Fractions are in hundredths.
PortfolioData ==
    {[positions |-> ps, total_value |-> tv] :
        ps \in PositionLists, tv \in {0, 100000}}
    \cup {[positions |-> ps] : ps \in PositionLists}
    \cup {[positions |-> ps, total_value |-> 100000, daily_pnl |-> 3000,
           risk_metrics |-> [current_drawdown |-> 15, leverage |-> 200]] :
        ps \in PositionLists}

\* position_value / total_value >= 0.2
ConcentrationAtLeast(position_value, total_value) ==
    IF total_value > 0 THEN position_value * 5 >= total_value
    ELSE position_value * 5 <= total_value

\* concentration > 0.2 for concentration = position_value / total_value,
\* total_value not 0, in exact arithmetic.
ConcentrationAbove(position_value, total_value) ==
    IF total_value > 0 THEN position_value * 5 > total_value
    ELSE position_value * 5 < total_value

\* The CopilotInsight appended for one concentrated position; the constant
\* sources, description and suggested_actions are left out.
ConcentrationInsight(position, total_value, clock) ==
    [id |-> "concentration_risk_" \o position.symbol,
     type |-> "risk",
     title |-> "High Position Concentration",
     confidence |-> "high",
     risk_level |-> "high",
     timestamp |-> clock,
     actionable |-> TRUE,
     data_points |->
       [symbol |-> position.symbol,
        concentration |-> Div(Get(position, "market_value", 0) * 100,
                              total_value)]]

\* The loop of _analyze_position_concentration over positions[i..]:
\* the insights so far, or the exception of the division.
RECURSIVE ConcentrationLoop(_, _, _, _)
ConcentrationLoop(positions, i, total_value, clock) ==
    IF i > Len(positions) THEN [raised |-> FALSE, list |-> <<>>]
    ELSE IF total_value = 0 THEN Raised("ZeroDivisionError")
    ELSE
      LET position == positions[i]
          rest == ConcentrationLoop(positions, i + 1, total_value, clock)
          here == IF ConcentrationAbove(Get(position, "market_value", 0),
                                        total_value)
                  THEN <<ConcentrationInsight(position, total_value, clock)>>
                  ELSE <<>>
      IN  IF rest.raised THEN rest
          ELSE [raised |-> FALSE, list |-> here \o rest.list]

\* _analyze_position_concentration
_analyze_position_concentration(portfolio_data, clock) ==
    ConcentrationLoop(Get(portfolio_data, "positions", <<>>), 1,
                      Get(portfolio_data, "total_value", 1), clock)

\* _analyze_risk_metrics: drawdown above 0.1, leverage above 1.5
_analyze_risk_metrics(portfolio_data, clock) ==
    LET risk_metrics == Get(portfolio_data, "risk_metrics",
                            Restrict([none |-> 0], {}))
        drawdown == Get(risk_metrics, "current_drawdown", 0)
        leverage == Get(risk_metrics, "leverage", 100)
        warning(id, title, key, value) ==
            [id |-> id, type |-> "risk", title |-> title,
             confidence |-> "high", risk_level |-> "high",
             timestamp |-> clock, actionable |-> TRUE,
             data_points |-> [k \in {key} |-> value]]
    IN  (IF drawdown > 10
         THEN <<warning("high_drawdown_warning", "High Portfolio Drawdown",
                        "drawdown", drawdown)>>
         ELSE <<>>)
        \o
        (IF leverage > 150
         THEN <<warning("high_leverage_warning", "High Leverage Warning",
                        "leverage", leverage)>>
         ELSE <<>>)

\* _analyze_performance: a gain above 1% of the total value
_analyze_performance(portfolio_data, clock) ==
    LET daily_pnl == Get(portfolio_data, "daily_pnl", 0)
    IN  IF /\ daily_pnl > 0
           /\ Abs(daily_pnl) * 100 > Get(portfolio_data, "total_value", 1)
        THEN <<[id |-> "strong_daily_performance", type |-> "performance",
                title |-> "Strong Daily Performance",
                confidence |-> "high", risk_level |-> "low",
                timestamp |-> clock, actionable |-> TRUE,
                data_points |-> [daily_pnl |-> daily_pnl]]>>
        ELSE <<>>

\* analyze_portfolio_context: the three analyses in order; an exception of
\* the first leaves the method.
analyze_portfolio_context(portfolio_data, clock) ==
    LET concentration_insights ==
            _analyze_position_concentration(portfolio_data, clock)
    IN  IF concentration_insights.raised THEN concentration_insights
        ELSE [raised |-> FALSE,
              list |-> concentration_insights.list
                       \o _analyze_risk_metrics(portfolio_data, clock)
                       \o _analyze_performance(portfolio_data, clock)]

(***************************************************************************)
(* The state machine: one action per public operation, plus the clock.     *)
(***************************************************************************)
Init ==
    /\ now = StartHour
    /\ guardrails = SafetyGuardrails
    /\ insight_history = <<>>
    /\ result = [op |-> "none"]
    /\ session = "None"
    /\ closed = {}
    /\ tasks = [t \in Tasks |-> [pc |-> "idle"]]
    /\ requests = {}

\* Time passes: datetime.now() returns a later value.
Tick ==
    /\ now + TickHours <= MaxNow
    /\ now' = now + TickHours
    /\ UNCHANGED <<guardrails, insight_history, result, copilot_vars>>

\* AlertAnalyzer.analyze_stock_for_alerts(symbol, user_id, market_data,
\* news_data, account_data)
AnalyzeStockForAlerts ==
    \E reply \in LLMReplies, market_data \in MarketData,
       account_data \in AccountData :
        /\ result' = [op |-> "analyze_stock_for_alerts",
                      symbol |-> "AAPL",
                      reply |-> reply,
                      market_data |-> market_data,
                      account_data |-> account_data,
                      ret |-> analyze_stock_for_alerts(
                                  "AAPL", "user123", market_data, reply,
                                  account_data, now)]
        /\ UNCHANGED <<now, guardrails, insight_history, copilot_vars>>

\* SafetyGuardrails.validate_suggestion(insight, context)
ValidateSuggestion ==
    \E insight \in Insights, context \in Contexts :
        /\ result' = [op |-> "validate_suggestion",
                      insight |-> insight,
                      context |-> context,
                      ret |-> validate_suggestion(guardrails, insight, context)]
        /\ UNCHANGED <<now, guardrails, insight_history, copilot_vars>>

\* SafetyGuardrails.add_forbidden_symbol(symbol)
AddForbiddenSymbol ==
    \E symbol \in Symbols :
        /\ guardrails' = add_forbidden_symbol(guardrails, symbol)
        /\ result' = [op |-> "add_forbidden_symbol", symbol |-> symbol]
        /\ UNCHANGED <<now, insight_history, copilot_vars>>

\* SafetyGuardrails.remove_forbidden_symbol(symbol)
RemoveForbiddenSymbol ==
    \E symbol \in Symbols :
        /\ guardrails' = remove_forbidden_symbol(guardrails, symbol)
        /\ result' = [op |-> "remove_forbidden_symbol", symbol |-> symbol]
        /\ UNCHANGED <<now, insight_history, copilot_vars>>

\* The rule_config dicts of add_safety_rule, by rule type.
SafetyRules ==
    {[rule_type |-> "forbidden_symbol", rule_config |-> [symbol |-> s]]
        : s \in Symbols}
    \cup {[rule_type |-> "max_position_size", rule_config |-> [percentage |-> p]]
        : p \in Percentages}
    \cup {[rule_type |-> "max_daily_loss", rule_config |-> [percentage |-> p]]
        : p \in LossPercentages}
    \cup {[rule_type |-> "max_leverage", rule_config |-> [percentage |-> 5]]}

\* CopilotService.add_safety_rule(rule_type, rule_config)
AddSafetyRule ==
    \E rule \in SafetyRules :
        /\ guardrails' = add_safety_rule(guardrails, rule.rule_type,
                                         rule.rule_config)
        /\ result' = [op |-> "add_safety_rule", rule |-> rule]
        /\ UNCHANGED <<now, insight_history, copilot_vars>>

\* CopilotService.get_insights(market_data, portfolio_data)
GetInsights ==
    \E market_data \in MarketSnapshots, portfolio_data \in PortfolioSnapshots,
       llm_ok \in BOOLEAN :
        LET insights == generate_trading_suggestions(
                            guardrails, market_data, portfolio_data, llm_ok)
        IN  /\ insight_history' =
                   RecentInsights(insight_history \o insights, now)
            /\ result' = [op |-> "get_insights",
                          market_data |-> market_data,
                          portfolio_data |-> portfolio_data,
                          ret |-> insights]
            /\ UNCHANGED <<now, guardrails, copilot_vars>>

\* CopilotAnalyzer.analyze_portfolio_context(portfolio_data)
AnalyzePortfolioContext ==
    \E portfolio_data \in PortfolioData :
        /\ result' = [op |-> "analyze_portfolio_context",
                      portfolio_data |-> portfolio_data,
                      ret |-> analyze_portfolio_context(portfolio_data, now)]
        /\ UNCHANGED <<now, guardrails, insight_history, copilot_vars>>

\* CopilotAlertService.setup_intelligent_alerts(user_id, symbol, market_data,
\* news_data, account_data), on an alert manager whose session is open
SetupIntelligentAlerts ==
    \E reply \in LLMReplies, account_data \in AlertAccounts,
       outage \in Outages :
        LET market_data == Restrict([price |-> 100], {})
            done == setup_intelligent_alerts("user123", "AAPL", market_data,
                                             reply, account_data, outage, now)
        IN  /\ result' = [op |-> "setup_intelligent_alerts",
                          reply |-> reply,
                          account_data |-> account_data,
                          outage |-> outage,
                          suggestion |-> done.suggestion,
                          ret |-> done.ret,
                          calls |-> done.calls]
            /\ UNCHANGED <<now, guardrails, insight_history, copilot_vars>>

\* CopilotService.get_insight_history(hours)
GetInsightHistory ==
    \E hours \in HistoryHours :
        /\ result' = [op |-> "get_insight_history",
                      hours |-> hours,
                      ret |-> get_insight_history(insight_history, hours, now)]
        /\ UNCHANGED <<now, guardrails, insight_history, copilot_vars>>

(***************************************************************************)
(* src/ai/copilot.py: FrontierCopilot.analyze_stock, run as coroutines on  *)
(* one event loop.  A coroutine is suspended at its awaits: the LLM call,  *)
(* each request to the alert service, the close of the session.            *)
(***************************************************************************)
\* The LLM replies the concurrent calls get: an alert with both prices, a
\* buy, and a failure.
TaskReplies ==
    {r \in LLMReplies :
        \/ ~r.ok
        \/ /\ DOMAIN r.content = DOMAIN _get_fallback_analysis
                                   \ {"reasoning", "estimated_cost",
                                      "time_horizon"}
           /\ r.content.potential_downside.num
           /\ \/ r.content.take_profit_suggestion = 120
                 /\ r.content.action_type = "alert"
              \/ r.content.suggested_quantity = 40}

\* account_data of analyze_stock when the caller passes None
DefaultAccount == [cash |-> 10000, equity |-> 10000, buying_power |-> 10000]

\* `async with self.alert_manager:`, AlertManager.__aenter__: a new
\* ClientSession, named after the task that made it, replaces whatever
\* self.session held.
AnalyzeStockEnter(t) ==
    /\ tasks[t].pc = "idle"
    /\ session' = t
    /\ tasks' = [tasks EXCEPT ![t] = [pc |-> "analyzing"]]
    /\ UNCHANGED <<now, guardrails, insight_history, result, closed, requests>>

\* setup_intelligent_alerts up to its first alert-manager call: the LLM
\* reply arrives and analyze_stock_for_alerts returns the suggestion or
\* raises.  pending holds the alert-manager calls still to make.
AnalyzeStockAnalysis(t) ==
    /\ tasks[t].pc = "analyzing"
    /\ \E reply \in TaskReplies, outage \in Outages :
          LET suggestion ==
                  analyze_stock_for_alerts(
                      "AAPL", "user123", Restrict([price |-> 100], {}),
                      reply, DefaultAccount, now)
          IN  tasks' = [tasks EXCEPT ![t] =
                  IF suggestion.raised
                  THEN [pc |-> "exiting", ret |-> suggestion]
                  ELSE [pc |-> "alerting", ret |-> suggestion,
                        pending |-> PlannedAlerts(suggestion, outage)]]
    /\ UNCHANGED <<now, guardrails, insight_history, result, session, closed,
                   requests>>

\* One create_price_alert / create_news_alert call: self.session.post on
\* the session self.session holds now.  A closed session raises
\* RuntimeError("Session is closed"); the request itself may raise.
AnalyzeStockPost(t) ==
    /\ tasks[t].pc = "alerting"
    /\ LET call == Head(tasks[t].pending)
           rest == Tail(tasks[t].pending)
       IN  /\ requests' = requests \cup
                  {[task |-> t, url |-> call.url, session |-> session,
                    session_closed |-> session \in closed]}
           /\ tasks' = [tasks EXCEPT ![t] =
                  IF session \in closed
                    THEN [pc |-> "exiting", ret |-> Raised("RuntimeError")]
                  ELSE IF call.raised
                    THEN [pc |-> "exiting", ret |-> Raised("ClientError")]
                  ELSE IF rest = <<>>
                    THEN [pc |-> "exiting", ret |-> tasks[t].ret]
                  ELSE [tasks[t] EXCEPT !.pending = rest]]
    /\ UNCHANGED <<now, guardrails, insight_history, result, session, closed>>

\* The end of the async with block, AlertManager.__aexit__: closes the
\* session self.session holds now; then analyze_stock returns or raises.
AnalyzeStockExit(t) ==
    /\ tasks[t].pc = "exiting"
    /\ closed' = IF session # "None" THEN closed \cup {session} ELSE closed
    /\ tasks' = [tasks EXCEPT ![t] = [pc |-> "done", ret |-> tasks[t].ret]]
    /\ UNCHANGED <<now, guardrails, insight_history, result, session, requests>>

\* The whole program: every operation may follow every other.
Next ==
    \/ Tick
    \/ AnalyzeStockForAlerts
    \/ ValidateSuggestion
    \/ AddForbiddenSymbol
    \/ RemoveForbiddenSymbol
    \/ AddSafetyRule
    \/ GetInsights
    \/ GetInsightHistory
    \/ AnalyzePortfolioContext
    \/ SetupIntelligentAlerts
    \/ \E t \in Tasks : AnalyzeStockEnter(t)
    \/ \E t \in Tasks : AnalyzeStockAnalysis(t)
    \/ \E t \in Tasks : AnalyzeStockPost(t)
    \/ \E t \in Tasks : AnalyzeStockExit(t)

Spec == Init /\ [][Next]_vars

\* No operation reads the result of the previous call, so a property of the
\* calls of some operations is decided by the behaviours in which only those
\* operations, the clock and the changes of configuration occur.
\* The calls of the two guardrail evaluators and of get_insights:
GuardrailNext ==
    \/ Tick
    \/ AnalyzeStockForAlerts
    \/ ValidateSuggestion
    \/ AddForbiddenSymbol
    \/ RemoveForbiddenSymbol
    \/ AddSafetyRule
    \/ GetInsights

GuardrailSpec == Init /\ [][GuardrailNext]_vars

\* The calls of the services around the evaluators:
ServiceNext ==
    \/ Tick
    \/ AddForbiddenSymbol
    \/ RemoveForbiddenSymbol
    \/ AddSafetyRule
    \/ GetInsights
    \/ GetInsightHistory
    \/ AnalyzePortfolioContext
    \/ SetupIntelligentAlerts

ServiceSpec == Init /\ [][ServiceNext]_vars

\* The analyze_stock calls of a FrontierCopilot, interleaved at their awaits:
CopilotNext ==
    \/ Tick
    \/ \E t \in Tasks : AnalyzeStockEnter(t)
    \/ \E t \in Tasks : AnalyzeStockAnalysis(t)
    \/ \E t \in Tasks : AnalyzeStockPost(t)
    \/ \E t \in Tasks : AnalyzeStockExit(t)

CopilotSpec == Init /\ [][CopilotNext]_vars

(***************************************************************************)
(* Properties                                                              *)
(***************************************************************************)
Contains(seq, x) == \E i \in 1..Len(seq) : seq[i] = x

\* The last call was analyze_stock_for_alerts and it returned a suggestion.
Analyzed ==
    /\ result.op = "analyze_stock_for_alerts"
    /\ ~result.ret.raised

\* The last call was validate_suggestion and it returned a verdict.
Validated ==
    /\ result.op = "validate_suggestion"
    /\ ~result.ret.raised

\* quantity x price of the suggestion returned
SuggestionCost ==
    result.ret.what_if.quantity * result.ret.what_if.price

BuyingPowerText == "Insufficient buying power"
PositionText(pct) ==
    IF pct = 5 THEN "Position size exceeds 5% portfolio limit"
    ELSE IF pct = 10 THEN "Position size exceeds 10% portfolio limit"
    ELSE "Position size exceeds N% portfolio limit"
DailyLossText == "Daily loss limit reached"
DailyLossExceededText == "Daily loss limit exceeded"
ConfidenceText == "Confidence level too low for actionable suggestion"
VolatilityText == "Market volatility too high"

\* C1: whenever a suggestion's estimated cost (quantity x price) is greater
\* than the account's buying power, the guardrail verdict contains
\* "Insufficient buying power" and risk_limits_ok is false.
C1_InsufficientBuyingPower ==
    (/\ Analyzed
     /\ "buying_power" \in DOMAIN result.account_data
     /\ SuggestionCost > result.account_data.buying_power)
    => /\ Contains(result.ret.guardrails.violations, BuyingPowerText)
       /\ ~result.ret.guardrails.risk_limits_ok

C1_Witness ==
    /\ Analyzed
    /\ "buying_power" \in DOMAIN result.account_data
    /\ result.account_data.buying_power = 5000
    /\ SuggestionCost = 6000
    /\ Contains(result.ret.guardrails.violations, BuyingPowerText)

\* C2: the position-size check rejects exactly when the cost is greater than
\* total value times the configured max_position_size_pct, and names that
\* percentage in the violation, also after add_safety_rule has changed it.
C2_ConfiguredPositionLimit ==
    (Analyzed /\ "equity" \in DOMAIN result.account_data)
    => (Contains(result.ret.guardrails.violations,
                 PositionText(guardrails.max_position_size_pct))
        <=> SuggestionCost * 100
              > result.account_data.equity * guardrails.max_position_size_pct)

\* C3: a daily-loss rejection happens if and only if daily_pnl is below
\* daily_loss_limit (default -1000) in _check_guardrails, and in
\* validate_suggestion a daily-loss rejection never happens for a daily P&L
\* that is zero or a gain.
C3_DailyLossOnlyBelowLimit ==
    /\ Analyzed =>
         (Contains(result.ret.guardrails.violations, DailyLossText)
          <=> Get(result.account_data, "daily_pnl", 0)
                < Get(result.account_data, "daily_loss_limit", -1000))
    /\ (Validated /\ result.ret.reason = DailyLossExceededText)
         => Get(result.context.portfolio, "daily_pnl", 0) < 0

\* C4: a suggestion whose symbol, upper-cased, is in the forbidden set at
\* evaluation time is rejected by validate_suggestion.
C4_ForbiddenSymbolRejected ==
    (/\ Validated
     /\ "symbol" \in DOMAIN result.context.market
     /\ Upper(result.context.market.symbol) \in guardrails.forbidden_symbols)
    => ~result.ret.is_safe

\* The violations the three checks of _check_guardrails call for, each
\* decided on its own, in check order.
ExpectedViolations(account_data, cost) ==
    (IF cost > Get(account_data, "buying_power", 0)
     THEN <<BuyingPowerText>> ELSE <<>>)
    \o (IF cost * 100 > Get(account_data, "equity", 1) * 5
        THEN <<PositionText(5)>> ELSE <<>>)
    \o (IF Get(account_data, "daily_pnl", 0)
             < Get(account_data, "daily_loss_limit", -1000)
        THEN <<DailyLossText>> ELSE <<>>)

\* The example of the specification: cost 6000, total value 100000, buying
\* power 5000, daily P&L -500, daily loss limit -1000.
ExampleEvaluated ==
    /\ Analyzed
    /\ SuggestionCost = 6000
    /\ result.account_data = [buying_power |-> 5000, equity |-> 100000,
                              daily_pnl |-> -500, daily_loss_limit |-> -1000]

\* The daily check of validate_suggestion rejects or raises: a non-empty
\* portfolio whose total_value is 0, or whose |daily_pnl| is above
\* max_daily_loss_pct of |total_value|.
DailyPctStops(portfolio) ==
    /\ DOMAIN portfolio # {}
    /\ \/ Get(portfolio, "total_value", 1) = 0
       \/ Abs(Get(portfolio, "daily_pnl", 0)) * 100
            > guardrails.max_daily_loss_pct * Abs(Get(portfolio, "total_value", 1))

ReplyRiskHigh ==
    /\ result.reply.ok
    /\ "risk_level" \in DOMAIN result.reply.content
    /\ result.reply.content.risk_level = "high"

LoopOverValidated ==
    ValidatedInsights(guardrails, <<result.insight>>, result.context)

\* C7: an insight whose risk level is high or extreme is rejected with
\* "Risk level {level} exceeds safety threshold", whatever its confidence
\* and context, is dropped by the guardrail loop of
\* generate_trading_suggestions, and no list get_insights returns holds one.
C7_HighRiskRejected ==
    /\ (/\ result.op = "validate_suggestion"
        /\ result.insight.risk_level \in {"high", "extreme"})
       => /\ ~result.ret.raised
          /\ ~result.ret.is_safe
          /\ result.insight.risk_level = "high"
               => result.ret.reason = "Risk level high exceeds safety threshold"
          /\ result.insight.risk_level = "extreme"
               => result.ret.reason = "Risk level extreme exceeds safety threshold"
          /\ LoopOverValidated.list = <<>>
    /\ result.op = "get_insights" =>
         \A i \in 1..Len(result.ret) :
             result.ret[i].risk_level \notin {"high", "extreme"}

\* an extreme-risk insight of high confidence in a calm context, rejected
C7_Witness ==
    /\ result.op = "validate_suggestion"
    /\ result.insight = [risk_level |-> "extreme", confidence |-> "high"]
    /\ DOMAIN result.context.portfolio = {}
    /\ ~result.ret.raised
    /\ ~result.ret.is_safe

ContextVolatility == Get(result.context.market, "volatility", 0)

SameCallAgain ==
    /\ result.op = "analyze_stock_for_alerts"
    /\ result'.op = "analyze_stock_for_alerts"
    /\ ~result.ret.raised
    /\ ~result'.ret.raised
    /\ result'.reply = result.reply
    /\ result'.market_data = result.market_data
    /\ result'.account_data = result.account_data

\* C10: market_hours_ok is true exactly when the evaluation time is in
\* [09:00, 16:00); the flag is advisory: every violation of the verdict is
\* one of the three blocking checks, and the same call evaluated at another
\* time gets the same violations and the same accept value.
C10_MarketHoursAdvisory ==
    [][ /\ (/\ now' = now
            /\ result'.op = "analyze_stock_for_alerts"
            /\ ~result'.ret.raised)
           => /\ result'.ret.guardrails.market_hours_ok
                   <=> (9 <= now % 24 /\ now % 24 < 16)
              /\ \A i \in 1..Len(result'.ret.guardrails.violations) :
                     result'.ret.guardrails.violations[i]
                       \in {BuyingPowerText, PositionText(5), DailyLossText}
        /\ SameCallAgain
           => /\ result'.ret.guardrails.violations
                   = result.ret.guardrails.violations
              /\ result'.ret.guardrails.risk_limits_ok
                   = result.ret.guardrails.risk_limits_ok
      ]_vars

\* evaluated outside market hours, flagged, and accepted all the same
C10_Witness ==
    /\ Analyzed
    /\ ~MarketHoursOk(now)
    /\ ~result.ret.guardrails.market_hours_ok
    /\ result.ret.guardrails.risk_limits_ok
    /\ result.ret.guardrails.violations = <<>>
    /\ SuggestionCost = 4000

\* C11: the buying-power usage of every returned suggestion lies within
\* [0, 100] percent, for a negative quantity, a zero cost and a cost above
\* the buying power alike.
C11_BpUsageWithinBounds ==
    Analyzed
    => /\ result.ret.risk_impact.bp_usage >= 0
       /\ result.ret.risk_impact.bp_usage <= 100

\* The last call was analyze_portfolio_context.
PortfolioAnalyzed == result.op = "analyze_portfolio_context"

\* The concentration warnings among the insights returned.
ConcentrationWarnings ==
    SelectSeq(result.ret.list,
              LAMBDA insight : insight.title = "High Position Concentration")

\* C12: no evaluation fails with a division by zero.  A buying power present
\* and equal to 0 gives a suggestion with a usage of 100 percent; a total
\* value present and equal to 0 gives a verdict from validate_suggestion and
\* a concentration of 100 percent for every position.
C12_NoDivisionByZero ==
    /\ (/\ result.op = "analyze_stock_for_alerts"
        /\ "buying_power" \in DOMAIN result.account_data
        /\ result.account_data.buying_power = 0)
       => /\ ~result.ret.raised
          /\ result.ret.risk_impact.bp_usage = 100
    /\ (/\ result.op = "validate_suggestion"
        /\ "total_value" \in DOMAIN result.context.portfolio
        /\ result.context.portfolio.total_value = 0)
       => ~result.ret.raised
    /\ (/\ PortfolioAnalyzed
        /\ "total_value" \in DOMAIN result.portfolio_data
        /\ result.portfolio_data.total_value = 0)
       => /\ ~result.ret.raised
          /\ Len(ConcentrationWarnings) = Len(result.portfolio_data.positions)
          /\ \A i \in 1..Len(ConcentrationWarnings) :
                ConcentrationWarnings[i].data_points.concentration = 100

\* C13: the guardrail verdict is a function of the explicit inputs of the
\* evaluation only: the same call made again returns the same verdict, flags
\* and violations, whatever the ambient clock shows.
C13_VerdictDeterministic ==
    [][ SameCallAgain
        => result'.ret.guardrails = result.ret.guardrails ]_vars

\* The last call was setup_intelligent_alerts and its analysis returned a
\* suggestion.
SetupAnalyzed ==
    /\ result.op = "setup_intelligent_alerts"
    /\ ~result.suggestion.raised

\* C14: alerts are created only for accepted, high-confidence suggestions.
\* When the verdict of the suggestion lists a violation, or its confidence
\* is not high (a confidence of at most 0.5 is high under no reading),
\* setup_intelligent_alerts makes no create_price_alert and no
\* create_news_alert call.
C14_AlertsOnlyWhenAccepted ==
    (/\ SetupAnalyzed
     /\ \/ result.suggestion.guardrails.violations # <<>>
        \/ result.suggestion.confidence <= 50)
    => result.calls = <<>>

\* The indices, in order, of the positions of the portfolio analysed whose
\* market value is strictly more than 20% of the total value.
ConcentratedPositions ==
    LET positions == result.portfolio_data.positions
        total_value == Get(result.portfolio_data, "total_value", 1)
    IN  SelectSeq([i \in 1..Len(positions) |-> i],
                  LAMBDA i : positions[i].market_value * 100
                               > 20 * total_value)

Accepts(self, insight, context) ==
    LET v == validate_suggestion(self, insight, context)
    IN  ~v.raised /\ v.is_safe

\* What generate_trading_suggestions returns when its parser yields the
\* list parsed: the outcome of the guardrail loop, or [] from the except
\* branch.
SuggestionsFrom(parsed, context) ==
    LET validated == ValidatedInsights(guardrails, parsed, context)
    IN  IF validated.raised THEN <<>> ELSE validated.list

\* C16: a rejected insight is discarded.  generate_trading_suggestions
\* returns exactly the parsed insights that validate_suggestion accepts, in
\* their original order and unchanged (here for the insight last validated
\* followed by any second one), get_insights returns that list, and a
\* get_insights call adds to the history nothing but what it returns.
C16_RejectedDiscarded ==
    /\ [](/\ result.op = "validate_suggestion"
             => \A second \in Insights :
                  LET parsed == <<result.insight, second>>
                  IN  SuggestionsFrom(parsed, result.context)
                        = SelectSeq(parsed,
                                    LAMBDA insight :
                                      Accepts(guardrails, insight,
                                              result.context))
          /\ result.op = "get_insights"
             => LET context == [market |-> result.market_data,
                                portfolio |-> result.portfolio_data]
                IN  result.ret
                      = SuggestionsFrom(
                            _parse_ai_response("analysis", context), context))
    /\ [][ result'.op = "get_insights"
           => \A i \in 1..Len(insight_history') :
                 \/ Contains(insight_history, insight_history'[i])
                 \/ Contains(result'.ret, insight_history'[i]) ]_vars

\* a rejected insight was validated; the loop over it and an accepted
\* second insight returns the second only
C16_Witness ==
    /\ Validated
    /\ ~result.ret.is_safe
    /\ \E second \in Insights :
          /\ Accepts(guardrails, second, result.context)
          /\ SuggestionsFrom(<<result.insight, second>>, result.context)
               = <<second>>

\* C17: the derived risk figures are computed for a rejected suggestion as
\* for an accepted one: max_loss is cost x (downside percent / 100), and
\* risk_reward_ratio is the value of the reply, or 1.0 when the reply has
\* none.
C17_RiskFiguresWhateverTheVerdict ==
    Analyzed
    => LET analysis == _get_ai_analysis(result.reply)
           downside_pct == Get(analysis, "potential_downside", Num(0)).v
       IN  /\ result.ret.risk_impact.max_loss * 100
                = SuggestionCost * downside_pct
           /\ "risk_reward_ratio" \in DOMAIN analysis
                => result.ret.risk_impact.risk_reward_ratio
                     = analysis.risk_reward_ratio
           /\ "risk_reward_ratio" \notin DOMAIN analysis
                => result.ret.risk_impact.risk_reward_ratio = 100

\* a rejected suggestion of cost 6000 and downside 10%: max loss 600, the
\* ratio 2.0 of the reply
C17_Witness ==
    /\ Analyzed
    /\ result.ret.guardrails.violations # <<>>
    /\ ~result.ret.guardrails.risk_limits_ok
    /\ SuggestionCost = 6000
    /\ result.ret.risk_impact.max_loss = 600
    /\ result.ret.risk_impact.risk_reward_ratio = 200

\* C18: when the LLM call fails or its content is not valid JSON,
\* analyze_stock_for_alerts does not fail: it returns a suggestion built
\* from the fallback analysis, with action type watch, confidence 0.3,
\* quantity 0 and estimated cost 0.  (Accounts with a buying power of 0 are
\* left to C12.)
C18_FallbackSuggestion ==
    (/\ result.op = "analyze_stock_for_alerts"
     /\ ~result.reply.ok
     /\ Get(result.account_data, "buying_power", 1) # 0)
    => /\ ~result.ret.raised
       /\ result.ret.action_type = "watch"
       /\ result.ret.confidence = 30
       /\ result.ret.what_if.quantity = 0
       /\ result.ret.what_if.estimated_cost = 0

\* The symbol whose forbidden status the step's call changes: that of
\* add_forbidden_symbol, of remove_forbidden_symbol or of
\* add_safety_rule('forbidden_symbol', ...), upper-cased.
TouchedSymbols ==
    IF result'.op \in {"add_forbidden_symbol", "remove_forbidden_symbol"}
      THEN {Upper(result'.symbol)}
    ELSE IF /\ result'.op = "add_safety_rule"
            /\ result'.rule.rule_type = "forbidden_symbol"
      THEN {Upper(result'.rule.rule_config.symbol)}
    ELSE {}

\* C19: the forbidden set holds exactly the upper-cased symbols whose most
\* recent operation, matched case-insensitively, was an add.  Step by step:
\* after an add the upper-cased symbol is in the set (already there or not),
\* after a remove it is not (there before or not, and no exception), the
\* status of every other symbol is unchanged, and every member is upper
\* case.
C19_ForbiddenSetTracksLastOperation ==
    [][ /\ result'.op = "add_forbidden_symbol"
           => Upper(result'.symbol) \in guardrails'.forbidden_symbols
        /\ (/\ result'.op = "add_safety_rule"
            /\ result'.rule.rule_type = "forbidden_symbol")
           => Upper(result'.rule.rule_config.symbol)
                \in guardrails'.forbidden_symbols
        /\ result'.op = "remove_forbidden_symbol"
           => Upper(result'.symbol) \notin guardrails'.forbidden_symbols
        /\ guardrails'.forbidden_symbols \ TouchedSymbols
             = guardrails.forbidden_symbols \ TouchedSymbols
        /\ \A s \in guardrails'.forbidden_symbols : Upper(s) = s
      ]_vars

\* remove_forbidden_symbol('aapl') was called while AAPL and TSLA were
\* forbidden: AAPL is gone, TSLA stays
C19_Witness ==
    /\ result.op = "remove_forbidden_symbol"
    /\ result.symbol = "aapl"
    /\ guardrails.forbidden_symbols = {"TSLA"}

\* The insight histories of at most MaxHistory entries that the service can
\* hold at the time clock: entries written 30, 24 and 2 hours before.
HistoriesAt(clock) ==
    UNION {[1..n -> [id : {"first", "second"},
                     timestamp : {clock - 30, clock - 24, clock - 2}]]
             : n \in 0..MaxHistory}

\* sub holds entries of seq, in the order of seq
RECURSIVE InOrder(_, _)
InOrder(sub, seq) ==
    IF sub = <<>> THEN TRUE
    ELSE IF seq = <<>> THEN FALSE
    ELSE IF Head(sub) = Head(seq) THEN InOrder(Tail(sub), Tail(seq))
    ELSE InOrder(sub, Tail(seq))

\* C20: after a get_insights call the history holds only insights stamped
\* within the 24 hours before the call, and every insight the call returned;
\* get_insight_history(hours) returns exactly the history entries newer than
\* now - hours, in insertion order, and so, for hours > 24, none that a
\* get_insights call has pruned.  The second conjunct applies the pruning
\* and the lookup to every history of HistoriesAt.
C20_HistoryWithinWindow ==
    /\ [](/\ result.op = "get_insights"
             => /\ \A i \in 1..Len(insight_history) :
                      insight_history[i].timestamp > now - 24
                /\ \A history \in HistoriesAt(now) :
                      LET fresh == [id |-> "fresh", timestamp |-> now]
                          after == RecentInsights(history \o <<fresh>>, now)
                      IN  /\ Contains(after, fresh)
                          /\ InOrder(after, history \o <<fresh>>)
                          /\ \A i \in 1..Len(after) :
                                after[i].timestamp > now - 24
          /\ result.op = "get_insight_history"
             => /\ InOrder(result.ret, insight_history)
                /\ \A i \in 1..Len(result.ret) :
                      result.ret[i].timestamp > now - result.hours
                /\ \A history \in HistoriesAt(now) :
                      LET got == get_insight_history(history, result.hours,
                                                     now)
                          pruned == RecentInsights(history, now)
                          later == get_insight_history(pruned, result.hours,
                                                       now)
                      IN  /\ InOrder(got, history)
                          /\ \A i \in 1..Len(history) :
                                Contains(got, history[i])
                                  <=> history[i].timestamp
                                        > now - result.hours
                          /\ \A i \in 1..Len(later) :
                                later[i].timestamp > now - 24)
    /\ [][ result'.op = "get_insights" /\ now' = now
           => \A i \in 1..Len(result'.ret) :
                 Contains(insight_history', result'.ret[i]) ]_vars

\* get_insight_history(48) was called; on a history with an entry 30 hours
\* old and one 2 hours old it returns both before the pruning of
\* get_insights and only the newer one after it
C20_Witness ==
    /\ result.op = "get_insight_history"
    /\ result.hours = 48
    /\ result.ret = insight_history
    /\ LET history == <<[id |-> "first", timestamp |-> now - 30],
                        [id |-> "second", timestamp |-> now - 2]>>
       IN  /\ history \in HistoriesAt(now)
           /\ get_insight_history(history, 48, now) = history
           /\ get_insight_history(RecentInsights(history, now), 48, now)
                = <<history[2]>>

\* C23: in every GuardrailCheck the flags agree with the violations:
\* max_position_ok is false exactly when the position-size violation is
\* listed, daily_loss_ok is false exactly when "Daily loss limit reached" is
\* listed, and risk_limits_ok is true exactly when no violation is listed.
C23_FlagsAgreeWithViolations ==
    Analyzed
    => LET check == result.ret.guardrails
       IN  /\ ~check.max_position_ok
                <=> Contains(check.violations, PositionText(5))
           /\ ~check.daily_loss_ok
                <=> Contains(check.violations, DailyLossText)
           /\ check.risk_limits_ok <=> check.violations = <<>>

\* The kind of alert an alert-manager call creates.
AlertKind(call) ==
    IF call.method = "create_news_alert" THEN "news" ELSE call.alert_type

\* The kinds of alert a suggestion asks for, in the order of the claim: a
\* stop loss and a take profit for an alert suggestion with that price
\* non-zero, then the news alert.
KindsDue(suggestion) ==
    LET risk_metrics == suggestion.what_if.risk_metrics
        is_alert == suggestion.action_type = "alert"
    IN  (IF is_alert /\ risk_metrics.stop_loss # 0
         THEN <<"stop_loss">> ELSE <<>>)
        \o (IF is_alert /\ risk_metrics.take_profit # 0
            THEN <<"take_profit">> ELSE <<>>)
        \o <<"news">>

InBlock(t) == tasks[t].pc \in {"analyzing", "alerting"}

====
